---- MODULE Spec2Model ----
(***************************************************************************)
(* A model of src/src/core/math/Polygon3.js: the convex polygon type, its   *)
(* bounding-volume cache, its flip/transform operations and the Shared     *)
(* provenance record with its lazily assigned tag.                         *)
(*                                                                         *)
(* Vectors are integer triples.  Vector3D.length() and times(0.5) are       *)
(* modelled exactly (Sqrt and Half pick the exact root / half), so the     *)
(* loops and offsets the model draws are those on which they are exact.    *)
(* An absent value (null / undefined) is the empty sequence None, a        *)
(* present one the one-element sequence Some(x).                           *)
(***************************************************************************)
EXTENDS Integers, Sequences, FiniteSets, TLC

VARIABLES polys, hist, shareds, staticTag, tagLog, debug, call

vars == <<polys, hist, shareds, staticTag, tagLog, debug, call>>

-----------------------------------------------------------------------------
(* Bounds of the model *)

\* polygons alive in the polygon machine (Spec)
MaxPolys == 2
\* Shared instances alive in the polygon machine and the derivation machine
MaxShared == 2
\* polygons of one derivation family (SpecChain)
MaxChain == 3
\* Shared instances of the tag registry (SpecTags)
MaxTagged == 3
\* longest vertex loop given to verticesConvex (SpecConvex)
MaxLen == 4
\* most components given to fromColor (SpecColor)
MaxArity == 5
\* longest feature list given to getTetraFeatures (SpecFeatures)
MaxFeatures == 3

-----------------------------------------------------------------------------
(* Absent values and sequences *)

None == <<>>

Some(x) == <<x>>

IsNone(o) == Len(o) = 0

Get(o) == o[1]

Reverse(s) == [i \in 1..Len(s) |-> s[Len(s) + 1 - i]]

-----------------------------------------------------------------------------
(* Vector3D, the external vector algebra *)

Sqrt(n) == CHOOSE r \in 0..n : r * r = n

Half(x) == CHOOSE h \in -(x * x)..(x * x) : 2 * h = x

Minimum(a, b) == IF a < b THEN a ELSE b

Maximum(a, b) == IF a > b THEN a ELSE b

Plus(a, b) == <<a[1] + b[1], a[2] + b[2], a[3] + b[3]>>

Minus(a, b) == <<a[1] - b[1], a[2] - b[2], a[3] - b[3]>>

Negated(a) == <<-a[1], -a[2], -a[3]>>

Dot(a, b) == a[1] * b[1] + a[2] * b[2] + a[3] * b[3]

Cross(a, b) ==
  <<a[2] * b[3] - a[3] * b[2], a[3] * b[1] - a[1] * b[3], a[1] * b[2] - a[2] * b[1]>>

Length(a) == Sqrt(Dot(a, a))

Times05(a) == <<Half(a[1]), Half(a[2]), Half(a[3])>>

VMin(a, b) == <<Minimum(a[1], b[1]), Minimum(a[2], b[2]), Minimum(a[3], b[3])>>

VMax(a, b) == <<Maximum(a[1], b[1]), Maximum(a[2], b[2]), Maximum(a[3], b[3])>>

Unit(a) == <<a[1] \div Length(a), a[2] \div Length(a), a[3] \div Length(a)>>

Origin == <<0, 0, 0>>

-----------------------------------------------------------------------------
(* Matrix4x4, the external affine map: a linear part (rows) and an offset *)

Identity == [lin |-> <<<<1, 0, 0>>, <<0, 1, 0>>, <<0, 0, 1>>>>, t |-> Origin]

MirrorX == [lin |-> <<<<-1, 0, 0>>, <<0, 1, 0>>, <<0, 0, 1>>>>, t |-> Origin]

RotateZ == [lin |-> <<<<0, -1, 0>>, <<1, 0, 0>>, <<0, 0, 1>>>>, t |-> Origin]

MirrorShift == [lin |-> <<<<1, 0, 0>>, <<0, 1, 0>>, <<0, 0, -1>>>>, t |-> <<0, 0, 2>>]

translation(offset) == [lin |-> Identity.lin, t |-> offset]

LinApply(m, v) == <<Dot(m.lin[1], v), Dot(m.lin[2], v), Dot(m.lin[3], v)>>

multiply4x4(m, v) == Plus(LinApply(m, v), m.t)

Determinant(m) == Dot(m.lin[1], Cross(m.lin[2], m.lin[3]))

isMirroring(m) == Determinant(m) < 0

Matrices == {Identity, MirrorX, RotateZ, MirrorShift}

Offsets == {<<2, 0, 2>>}

-----------------------------------------------------------------------------
(* Vertex: a position and the sign of an attached normal (0: none) *)

Vertex(pos) == [pos |-> pos, nrm |-> 0]

VertexFlipped(v) == [pos |-> v.pos, nrm |-> -v.nrm]

VertexTransform(v, m) == [pos |-> multiply4x4(m, v.pos), nrm |-> v.nrm]

-----------------------------------------------------------------------------
(* Plane: a unit normal and an offset *)

PlaneFromVector3Ds(a, b, c) ==
  LET n == Unit(Cross(Minus(b, a), Minus(c, a)))
  IN  [normal |-> n, w |-> Dot(n, a)]

PlaneFlipped(pl) == [normal |-> Negated(pl.normal), w |-> -pl.w]

\* for the rigid maps of Matrices: the normal is mapped by the linear part
PlaneTransform(pl, m) ==
  LET n == LinApply(m, pl.normal)
  IN  [normal |-> n, w |-> pl.w + Dot(n, m.t)]

-----------------------------------------------------------------------------
(* Polygon3.Shared *)

\* this.tag before the first getTag()
Undefined == 0 - 1

Falsy(x) == x = Undefined \/ x = 0

DefaultShared == 1

\* new Polygon3.Shared(color): color is None (null) or Some(array)
Shared(color) ==
  IF ~IsNone(color) /\ Len(Get(color)) # 4
  THEN [err |-> Some("Expecting 4 element array"), shared |-> None]
  ELSE [err |-> None, shared |-> Some([color |-> color, tag |-> Undefined])]

\* a slip: fromColor works on the caller's array
SliceRefCaller == "caller"

\* arguments[0].slice() yields a fresh array, not the caller's
SliceRef == "fresh"

\* Polygon3.Shared.fromColor: form "args" passes the components as arguments,
\* form "array" passes one array holding them.  arg is the caller's array
\* after the call.
fromColor(form, comps) ==
  IF form = "args" /\ Len(comps) = 1
  THEN [err |-> Some("TypeError: slice is not a function"), shared |-> None, arg |-> comps]
  ELSE LET ref == IF form = "array" THEN SliceRef ELSE "fresh"
           color == IF Len(comps) = 3 THEN Append(comps, 1) ELSE comps
           arg == IF ref = "caller" THEN color ELSE comps
       IN  IF Len(comps) # 3 /\ Len(comps) # 4
           THEN [err |-> Some("setColor expects either an array with 3 or 4 elements, or 3 or 4 parameters."),
                 shared |-> None, arg |-> arg]
           ELSE [err |-> Shared(Some(color)).err, shared |-> Shared(Some(color)).shared,
                 arg |-> arg]

RECURSIVE Join(_)
Join(s) ==
  IF Len(s) = 0 THEN ""
  ELSE IF Len(s) = 1 THEN ToString(s[1])
  ELSE ToString(s[1]) \o "/" \o Join(Tail(s))

getHash(sh) == IF IsNone(sh.color) THEN "null" ELSE Join(Get(sh.color))

\* the first value of the process-wide tag counter of ../constants
TagStart == 1

\* the imported getTag() of ../constants: returns the process-wide counter
\* and advances it
nextTag(ctr) == [ret |-> ctr, staticTag |-> ctr + 1]

\* a slip: the id is returned and not kept on the instance
getTagUncached(sh, ctr, s) ==
  IF Falsy(sh[s].tag)
  THEN [shareds |-> sh, staticTag |-> nextTag(ctr).staticTag, ret |-> nextTag(ctr).ret]
  ELSE [shareds |-> sh, staticTag |-> ctr, ret |-> sh[s].tag]

\* Shared.prototype.getTag on instance s of the registry sh with counter ctr
getTag(sh, ctr, s) ==
  IF Falsy(sh[s].tag)
  THEN [shareds |-> [sh EXCEPT ![s].tag = nextTag(ctr).ret],
        staticTag |-> nextTag(ctr).staticTag, ret |-> nextTag(ctr).ret]
  ELSE [shareds |-> sh, staticTag |-> ctr, ret |-> sh[s].tag]

-----------------------------------------------------------------------------
(* Polygon3: convexity *)

isConvexPoint(prevpoint, point, nextpoint, normal) ==
  Dot(Cross(Minus(point, prevpoint), Minus(nextpoint, point)), normal) >= 0

RECURSIVE ConvexLoop(_, _, _, _, _)
ConvexLoop(vertices, planenormal, i, prevprevpos, prevpos) ==
  IF i > Len(vertices) THEN TRUE
  ELSE IF ~isConvexPoint(prevprevpos, prevpos, vertices[i].pos, planenormal) THEN FALSE
  ELSE ConvexLoop(vertices, planenormal, i + 1, prevpos, vertices[i].pos)

\* a slip: the walk starts inside the loop and skips the wrap-around corners
verticesConvexNoWrap(vertices, planenormal) ==
  IF Len(vertices) > 2
  THEN ConvexLoop(vertices, planenormal, 3, vertices[1].pos, vertices[2].pos)
  ELSE TRUE

verticesConvex(vertices, planenormal) ==
  IF Len(vertices) > 2
  THEN ConvexLoop(vertices, planenormal, 1,
                  vertices[Len(vertices) - 1].pos, vertices[Len(vertices)].pos)
  ELSE TRUE

checkIfConvex(poly) == verticesConvex(poly.vertices, poly.plane.normal)

-----------------------------------------------------------------------------
(* Polygon3: construction *)

\* new Polygon3(vertices, shared, plane): shared and plane are None when the
\* argument is not passed; dbg is _CSGDEBUG
Polygon3(vertices, shared, plane, dbg) ==
  LET poly == [vertices |-> vertices,
               shared |-> IF IsNone(shared) THEN DefaultShared ELSE Get(shared),
               plane |-> IF ~IsNone(plane) THEN Get(plane)
                         ELSE PlaneFromVector3Ds(vertices[1].pos, vertices[2].pos, vertices[3].pos),
               cachedBoundingBox |-> None,
               cachedBoundingSphere |-> None]
  IN  IF dbg /\ ~checkIfConvex(poly)
      THEN [err |-> Some("Not convex!"), poly |-> None]
      ELSE [err |-> None, poly |-> Some(poly)]

createFromPoints(points, shared, plane, dbg) ==
  Polygon3([i \in 1..Len(points) |-> Vertex(points[i])], shared, plane, dbg)

-----------------------------------------------------------------------------
(* Polygon3: measures *)

RECURSIVE VolumeSum(_, _)
VolumeSum(vertices, i) ==
  IF i > Len(vertices) - 2 THEN 0
  ELSE Dot(vertices[1].pos, Cross(vertices[i + 1].pos, vertices[i + 2].pos))
       + VolumeSum(vertices, i + 1)

\* numbers that the code divides are kept as fractions
getSignedVolume(poly) == [num |-> VolumeSum(poly.vertices, 1), den |-> 6]

RECURSIVE AreaSum(_, _)
AreaSum(vertices, i) ==
  IF i > Len(vertices) - 2 THEN 0
  ELSE Length(Cross(Minus(vertices[i + 1].pos, vertices[1].pos),
                    Minus(vertices[i + 2].pos, vertices[i + 1].pos)))
       + AreaSum(vertices, i + 1)

getArea(poly) == [num |-> AreaSum(poly.vertices, 1), den |-> 2]

\* a slip: every result is put in front of the earlier ones
RECURSIVE getTetraFeaturesUnshift(_, _)
getTetraFeaturesUnshift(poly, features) ==
  IF Len(features) = 0 THEN <<>>
  ELSE LET feature == Head(features)
           rest == getTetraFeaturesUnshift(poly, Tail(features))
       IN  IF feature = "volume" THEN rest \o <<getSignedVolume(poly)>>
           ELSE IF feature = "area" THEN rest \o <<getArea(poly)>>
           ELSE rest

RECURSIVE getTetraFeatures(_, _)
getTetraFeatures(poly, features) ==
  IF Len(features) = 0 THEN <<>>
  ELSE LET feature == Head(features)
           rest == getTetraFeatures(poly, Tail(features))
       IN  IF feature = "volume" THEN <<getSignedVolume(poly)>> \o rest
           ELSE IF feature = "area" THEN <<getArea(poly)>> \o rest
           ELSE rest

-----------------------------------------------------------------------------
(* Polygon3: flip and transform *)

\* a slip: the vertex order is kept
flippedUnreversed(poly, dbg) ==
  Polygon3([i \in 1..Len(poly.vertices) |-> VertexFlipped(poly.vertices[i])],
           Some(poly.shared), Some(PlaneFlipped(poly.plane)), dbg)

flipped(poly, dbg) ==
  LET newvertices == [i \in 1..Len(poly.vertices) |-> VertexFlipped(poly.vertices[i])]
  IN  Polygon3(Reverse(newvertices), Some(poly.shared), Some(PlaneFlipped(poly.plane)), dbg)

\* a slip: the vertex order is kept under a mirroring matrix
transformUnreversed(poly, matrix4x4, dbg) ==
  Polygon3([i \in 1..Len(poly.vertices) |-> VertexTransform(poly.vertices[i], matrix4x4)],
           Some(poly.shared), Some(PlaneTransform(poly.plane, matrix4x4)), dbg)

\* a slip: the result is built without the receiver's shared
transformUnshared(poly, matrix4x4, dbg) ==
  LET newvertices ==
        [i \in 1..Len(poly.vertices) |-> VertexTransform(poly.vertices[i], matrix4x4)]
  IN  Polygon3(IF isMirroring(matrix4x4) THEN Reverse(newvertices) ELSE newvertices,
               None, Some(PlaneTransform(poly.plane, matrix4x4)), dbg)

transform(poly, matrix4x4, dbg) ==
  LET newvertices ==
        [i \in 1..Len(poly.vertices) |-> VertexTransform(poly.vertices[i], matrix4x4)]
      newplane == PlaneTransform(poly.plane, matrix4x4)
  IN  Polygon3(IF isMirroring(matrix4x4) THEN Reverse(newvertices) ELSE newvertices,
               Some(poly.shared), Some(newplane), dbg)

translate(poly, offset, dbg) == transform(poly, translation(offset), dbg)

-----------------------------------------------------------------------------
(* Polygon3: bounding volumes.  pl and hs are the polygons and their        *)
(* histories; an array the code builds is an object, named by the polygon, *)
(* its kind and the count of computations that built it.  The history      *)
(* counts the computations and keeps the first object each one built.      *)

RECURSIVE BoxScan(_, _, _, _)
BoxScan(vertices, i, minpoint, maxpoint) ==
  IF i > Len(vertices) THEN <<minpoint, maxpoint>>
  ELSE BoxScan(vertices, i + 1, VMin(minpoint, vertices[i].pos), VMax(maxpoint, vertices[i].pos))

ComputeBox(vertices) ==
  LET minpoint == IF Len(vertices) = 0 THEN Origin ELSE vertices[1].pos
  IN  BoxScan(vertices, 2, minpoint, minpoint)

\* a slip: the cache is never consulted
BoxMissAlways(poly) == TRUE

BoxMiss(poly) == IsNone(poly.cachedBoundingBox)

boundingBox(pl, hs, p) ==
  IF BoxMiss(pl[p])
  THEN LET box == [obj |-> <<p, "box", hs[p].boxComputes + 1>>, v |-> ComputeBox(pl[p].vertices)]
       IN  [polys |-> [pl EXCEPT ![p].cachedBoundingBox = Some(box)],
            hist |-> [hs EXCEPT ![p].boxComputes = @ + 1,
                                ![p].firstBox = IF IsNone(@) THEN Some(box) ELSE @],
            ret |-> box]
  ELSE [polys |-> pl, hist |-> hs, ret |-> Get(pl[p].cachedBoundingBox)]

SphereMiss(poly) == IsNone(poly.cachedBoundingSphere)

boundingSphere(pl, hs, p) ==
  IF SphereMiss(pl[p])
  THEN LET b == boundingBox(pl, hs, p)
           box == b.ret.v
           middle == Times05(Plus(box[1], box[2]))
           radius == Length(Minus(box[2], middle))
           sphere == [obj |-> <<p, "sphere", hs[p].sphereComputes + 1>>, v |-> <<middle, radius>>]
       IN  [polys |-> [b.polys EXCEPT ![p].cachedBoundingSphere = Some(sphere)],
            hist |-> [b.hist EXCEPT ![p].sphereComputes = @ + 1,
                                    ![p].firstSphere = IF IsNone(@) THEN Some(sphere) ELSE @],
            ret |-> sphere]
  ELSE [polys |-> pl, hist |-> hs, ret |-> Get(pl[p].cachedBoundingSphere)]

-----------------------------------------------------------------------------
(* Inputs *)

Triangle == <<<<0, 0, 2>>, <<6, 0, 2>>, <<6, 8, 2>>>>

Dart == <<<<0, 0, 2>>, <<6, 0, 2>>, <<2, 2, 2>>, <<0, 8, 2>>>>

\* a loop of vertices that carry a normal
WithNormals(points) == [i \in 1..Len(points) |-> [pos |-> points[i], nrm |-> 1]]

VertexLoops == {WithNormals(Triangle)}

PointLoops == {Dart}

\* the plane argument: not passed, or a plane facing down
PlaneArgs == {None, Some([normal |-> <<0, 0, -1>>, w |-> -2])}

\* setColor / fromColor calls of the object machines: <<form, components>>
ColorCalls == {<<"args", <<1, 0, 0>>>>, <<"array", <<1, 0>>>>}

\* new Shared(color) calls of the tag registry
ColorArgs == {None, Some(<<0, 0, 0, 1>>), Some(<<1, 0>>)}

FeatureNames == {"volume", "area", "bogus"}

FeatureCalls == {<<"area", "bogus", "volume">>}

\* the shared argument: not passed, or one of the instances that exist
SharedArgs == {None} \cup {Some(s) : s \in 1..Len(shareds)}

-----------------------------------------------------------------------------
(* State *)

\* the history of a polygon: its fields right after construction, the call
\* that made it (op, receiver, argument), and what its caches computed
NewHist(poly, op, parent, arg) ==
  [orig |-> [vertices |-> poly.vertices, plane |-> poly.plane, shared |-> poly.shared],
   op |-> op, parent |-> parent, arg |-> arg,
   boxComputes |-> 0, sphereComputes |-> 0, firstBox |-> None, firstSphere |-> None]

\* module load: the default Shared exists, the tag counter is at its start;
\* tagLog collects <<instance, id>> for every id a getTag() call returned
InitObjects ==
  /\ polys = <<>>
  /\ hist = <<>>
  /\ shareds = <<Get(Shared(None).shared)>>
  /\ staticTag = TagStart
  /\ tagLog = {}

Init ==
  /\ InitObjects
  /\ debug = FALSE
  /\ call = None

\* the outcome r of a constructor call: a new polygon, or an error and no polygon
AddPolygon(r, op, parent, arg) ==
  /\ IF IsNone(r.err)
     THEN /\ polys' = Append(polys, Get(r.poly))
          /\ hist' = Append(hist, NewHist(Get(r.poly), op, parent, arg))
     ELSE UNCHANGED <<polys, hist>>
  /\ UNCHANGED <<shareds, staticTag, tagLog, debug, call>>

-----------------------------------------------------------------------------
(* Operations of a polygon *)

Construct(cap, vertices, shared, plane) ==
  /\ Len(polys) < cap
  /\ AddPolygon(Polygon3(vertices, shared, plane, debug), "new", 0, shared)

CreateFromPoints(cap, points, shared, plane) ==
  /\ Len(polys) < cap
  /\ AddPolygon(createFromPoints(points, shared, plane, debug), "createFromPoints", 0, shared)

Flipped(cap, p) ==
  /\ Len(polys) < cap
  /\ AddPolygon(flipped(polys[p], debug), "flipped", p, None)

Transform(cap, p, m) ==
  /\ Len(polys) < cap
  /\ AddPolygon(transform(polys[p], m, debug), "transform", p, Some(m))

Translate(cap, p, offset) ==
  /\ Len(polys) < cap
  /\ AddPolygon(translate(polys[p], offset, debug), "translate", p, Some(translation(offset)))

\* a slip: the colour is written into the Shared the receiver holds
SetColorInPlace(cap, p, form, comps) ==
  /\ Len(shareds) < cap
  /\ LET r == fromColor(form, comps)
     IN  IF IsNone(r.err)
         THEN shareds' = [shareds EXCEPT ![polys[p].shared].color = Get(r.shared).color]
         ELSE UNCHANGED shareds
  /\ UNCHANGED <<polys, hist, staticTag, tagLog, debug, call>>

\* setColor: fromColor builds a new Shared, which the receiver then holds;
\* when fromColor throws nothing is assigned
SetColor(cap, p, form, comps) ==
  /\ Len(shareds) < cap
  /\ LET r == fromColor(form, comps)
     IN  IF IsNone(r.err)
         THEN /\ shareds' = Append(shareds, Get(r.shared))
              /\ polys' = [polys EXCEPT ![p].shared = Len(shareds) + 1]
         ELSE UNCHANGED <<shareds, polys>>
  /\ UNCHANGED <<hist, staticTag, tagLog, debug, call>>

BoundingBox(p) ==
  /\ polys' = boundingBox(polys, hist, p).polys
  /\ hist' = boundingBox(polys, hist, p).hist
  /\ UNCHANGED <<shareds, staticTag, tagLog, debug, call>>

BoundingSphere(p) ==
  /\ polys' = boundingSphere(polys, hist, p).polys
  /\ hist' = boundingSphere(polys, hist, p).hist
  /\ UNCHANGED <<shareds, staticTag, tagLog, debug, call>>

\* the measures and checkIfConvex read the polygon and assign nothing
GetSignedVolume(p) ==
  /\ getSignedVolume(polys[p]).den = 6
  /\ UNCHANGED vars

GetArea(p) ==
  /\ getArea(polys[p]).den = 2
  /\ UNCHANGED vars

GetTetraFeatures(p, features) ==
  /\ Len(getTetraFeatures(polys[p], features)) <= Len(features)
  /\ UNCHANGED vars

CheckIfConvex(p) ==
  /\ checkIfConvex(polys[p]) \in BOOLEAN
  /\ UNCHANGED vars

-----------------------------------------------------------------------------
(* Operations of a Shared *)

NewShared(cap, color) ==
  /\ Len(shareds) < cap
  /\ IF IsNone(Shared(color).err)
     THEN shareds' = Append(shareds, Get(Shared(color).shared))
     ELSE UNCHANGED shareds
  /\ UNCHANGED <<polys, hist, staticTag, tagLog, debug, call>>

FromColor(cap, form, comps) ==
  /\ Len(shareds) < cap
  /\ IF IsNone(fromColor(form, comps).err)
     THEN shareds' = Append(shareds, Get(fromColor(form, comps).shared))
     ELSE UNCHANGED shareds
  /\ UNCHANGED <<polys, hist, staticTag, tagLog, debug, call>>

GetTag(s) ==
  /\ shareds' = getTag(shareds, staticTag, s).shareds
  /\ staticTag' = getTag(shareds, staticTag, s).staticTag
  /\ tagLog' = tagLog \cup {<<s, getTag(shareds, staticTag, s).ret>>}
  /\ UNCHANGED <<polys, hist, debug, call>>

\* polygon.shared.getTag()
GetTagOf(p) == GetTag(polys[p].shared)

-----------------------------------------------------------------------------
(* The polygon machine: every operation of a polygon, on up to MaxPolys    *)
(* polygons and MaxShared Shared instances, with _CSGDEBUG off             *)

Next ==
  \/ \E v \in VertexLoops, s \in SharedArgs : Construct(MaxPolys, v, s, None)
  \/ \E pts \in PointLoops, s \in SharedArgs : CreateFromPoints(MaxPolys, pts, s, None)
  \/ \E p \in 1..Len(polys) : Flipped(MaxPolys, p)
  \/ \E p \in 1..Len(polys) : Transform(MaxPolys, p, MirrorX)
  \/ \E p \in 1..Len(polys), o \in Offsets : Translate(MaxPolys, p, o)
  \/ \E p \in 1..Len(polys), c \in ColorCalls : SetColor(MaxShared, p, c[1], c[2])
  \/ \E p \in 1..Len(polys) : BoundingBox(p)
  \/ \E p \in 1..Len(polys) : BoundingSphere(p)
  \/ \E p \in 1..Len(polys) : GetSignedVolume(p)
  \/ \E p \in 1..Len(polys) : GetArea(p)
  \/ \E p \in 1..Len(polys), f \in FeatureCalls : GetTetraFeatures(p, f)
  \/ \E p \in 1..Len(polys) : CheckIfConvex(p)

Spec == Init /\ [][Next]_vars

-----------------------------------------------------------------------------
(* The derivation machine: one polygon, constructed in either mode of      *)
(* _CSGDEBUG, and the family derived from it by flipped, transform and     *)
(* translate, up to MaxChain polygons; getTag through any of them          *)

InitChain ==
  /\ InitObjects
  /\ debug \in BOOLEAN
  /\ call = None

NextChain ==
  \/ \E c \in ColorCalls : FromColor(MaxShared, c[1], c[2])
  \/ \E v \in VertexLoops, s \in SharedArgs, pa \in PlaneArgs :
       Len(polys) = 0 /\ Construct(MaxChain, v, s, pa)
  \/ \E pts \in PointLoops, s \in SharedArgs, pa \in PlaneArgs :
       Len(polys) = 0 /\ CreateFromPoints(MaxChain, pts, s, pa)
  \/ \E p \in 1..Len(polys) : Flipped(MaxChain, p)
  \/ \E p \in 1..Len(polys), m \in Matrices : Transform(MaxChain, p, m)
  \/ \E p \in 1..Len(polys), o \in Offsets : Translate(MaxChain, p, o)
  \/ \E p \in 1..Len(polys) : GetTagOf(p)

SpecChain == InitChain /\ [][NextChain]_vars

-----------------------------------------------------------------------------
(* The tag registry: up to MaxTagged Shared instances and getTag on them   *)

NextTags ==
  \/ \E c \in ColorArgs : NewShared(MaxTagged, c)
  \/ \E c \in ColorCalls : FromColor(MaxTagged, c[1], c[2])
  \/ \E s \in 1..Len(shareds) : GetTag(s)

SpecTags == Init /\ [][NextTags]_vars

-----------------------------------------------------------------------------
(* The pure functions, each applied once to an input drawn by Init *)

SeqsUpTo(S, n) == UNION {[1..k -> S] : k \in 0..n}

Apply(fn, out) ==
  /\ ~IsNone(call)
  /\ Get(call).fn = fn
  /\ ~Get(call).done
  /\ call' = Some([Get(call) EXCEPT !.done = TRUE, !.out = Some(out)])
  /\ UNCHANGED <<polys, hist, shareds, staticTag, tagLog, debug>>

InitPure ==
  /\ InitObjects
  /\ debug = FALSE

\* Shared.fromColor on up to MaxArity components, in either calling form
ColorComponents == {0, 1}

InitColor ==
  /\ InitPure
  /\ \E form \in {"args", "array"}, comps \in SeqsUpTo(ColorComponents, MaxArity) :
       call = Some([fn |-> "fromColor", form |-> form, comps |-> comps,
                    done |-> FALSE, out |-> None])

ApplyFromColor == Apply("fromColor", fromColor(Get(call).form, Get(call).comps))

SpecColor == InitColor /\ [][ApplyFromColor]_vars

\* verticesConvex on the loops of up to MaxLen vertices over ConvexPoints
ConvexPoints ==
  {<<0, 0, 0>>, <<2, 0, 0>>, <<2, 2, 0>>, <<0, 2, 0>>, <<1, 1, 0>>, <<1, 0, 0>>, <<1, 1, 1>>}

ConvexNormals == {<<0, 0, 1>>, <<0, 0, -1>>, <<1, 0, 1>>}

InitConvex ==
  /\ InitPure
  /\ \E pts \in SeqsUpTo(ConvexPoints, MaxLen), n \in ConvexNormals :
       call = Some([fn |-> "verticesConvex",
                    vertices |-> [i \in 1..Len(pts) |-> Vertex(pts[i])], normal |-> n,
                    done |-> FALSE, out |-> None])

ApplyVerticesConvex ==
  Apply("verticesConvex", verticesConvex(Get(call).vertices, Get(call).normal))

SpecConvex == InitConvex /\ [][ApplyVerticesConvex]_vars

\* getTetraFeatures on a polygon and a list of up to MaxFeatures names
FeaturePolys ==
  {Get(createFromPoints(pts, None, None, FALSE).poly) : pts \in {Triangle, Dart}}

InitFeatures ==
  /\ InitPure
  /\ \E poly \in FeaturePolys, features \in SeqsUpTo(FeatureNames, MaxFeatures) :
       call = Some([fn |-> "getTetraFeatures", poly |-> poly, features |-> features,
                    done |-> FALSE, out |-> None])

ApplyGetTetraFeatures ==
  Apply("getTetraFeatures", getTetraFeatures(Get(call).poly, Get(call).features))

SpecFeatures == InitFeatures /\ [][ApplyGetTetraFeatures]_vars

-----------------------------------------------------------------------------
(* Claims on the polygon machine (Spec) *)

Polys == 1..Len(polys)

\* C1: after any sequence of a polygon's operations, its vertex sequence, its
\* plane and its shared reference are those it had right after construction.
C1_ReceiverImmutable ==
  \A p \in Polys :
    /\ polys[p].vertices = hist[p].orig.vertices
    /\ polys[p].plane = hist[p].orig.plane
    /\ polys[p].shared = hist[p].orig.shared

\* C3: on every polygon the bounding box and the bounding sphere are computed
\* at most once; once computed the cached object is the one the first
\* computation built, it stays, and a further call returns that same object
\* and computes nothing.
C3_ComputedOnce ==
  \A p \in Polys :
    /\ hist[p].boxComputes <= 1
    /\ hist[p].sphereComputes <= 1
    /\ polys[p].cachedBoundingBox = hist[p].firstBox
    /\ polys[p].cachedBoundingSphere = hist[p].firstSphere
    /\ IsNone(hist[p].firstBox) <=> hist[p].boxComputes = 0
    /\ IsNone(hist[p].firstSphere) <=> hist[p].sphereComputes = 0
    /\ ~IsNone(hist[p].firstBox) =>
         /\ boundingBox(polys, hist, p).ret = Get(hist[p].firstBox)
         /\ boundingBox(polys, hist, p).hist = hist
         /\ boundingBox(polys, hist, p).polys = polys
    /\ ~IsNone(hist[p].firstSphere) =>
         /\ boundingSphere(polys, hist, p).ret = Get(hist[p].firstSphere)
         /\ boundingSphere(polys, hist, p).hist = hist
         /\ boundingSphere(polys, hist, p).polys = polys

\* both caches of a polygon are filled, a polygon was derived from it and its
\* colour was set
C3_Witness ==
  \E p, q \in Polys :
    /\ ~IsNone(polys[p].cachedBoundingBox)
    /\ ~IsNone(polys[p].cachedBoundingSphere)
    /\ hist[q].parent = p
    /\ polys[p].shared # hist[p].orig.shared

\* C9: a polygon constructed without a shared argument, by the constructor or
\* by createFromPoints, references the default Shared; the default Shared has
\* no colour and its hash is 'null' in every state, whatever was done to the
\* polygons that reference it.
C9_DefaultShared ==
  /\ \A p \in Polys :
       hist[p].op \in {"new", "createFromPoints"} /\ IsNone(hist[p].arg)
         => hist[p].orig.shared = DefaultShared
  /\ IsNone(shareds[DefaultShared].color)
  /\ getHash(shareds[DefaultShared]) = "null"

\* two polygons were constructed without a shared argument; the colour of one
\* was set, the other still references the default Shared
C9_Witness ==
  \E p, q \in Polys :
    /\ hist[p].op = "new" /\ IsNone(hist[p].arg)
    /\ hist[q].op = "createFromPoints" /\ IsNone(hist[q].arg)
    /\ polys[p].shared # DefaultShared
    /\ polys[q].shared = DefaultShared

-----------------------------------------------------------------------------
(* Claims on the derivation machine (SpecChain) *)

Derived == {q \in Polys : hist[q].parent # 0}

Positions(vertices) == [i \in 1..Len(vertices) |-> vertices[i].pos]

\* C2: the polygon that transform, translate or flipped returns holds the very
\* Shared instance of its receiver; so all polygons derived from one polygon
\* reference one instance, every id that getTag() returned through any of
\* them is one and the same id, and getTag() through one and then through
\* another returns the same id twice.
C2_SharedByReference ==
  /\ \A q \in Derived : polys[q].shared = polys[hist[q].parent].shared
  /\ \A p, q \in Polys :
       /\ polys[p].shared = polys[q].shared
       /\ getTag(getTag(shareds, staticTag, polys[p].shared).shareds,
                 getTag(shareds, staticTag, polys[p].shared).staticTag,
                 polys[q].shared).ret
            = getTag(shareds, staticTag, polys[p].shared).ret
  /\ \A e \in tagLog : \A p \in Polys : e[1] = polys[p].shared /\ shareds[e[1]].tag = e[2]

\* a chain of three polygons made by two different operations, holding a
\* coloured Shared whose id getTag() has returned
C2_Witness ==
  /\ Len(polys) = 3
  /\ hist[2].parent = 1 /\ hist[3].parent = 2
  /\ hist[2].op = "flipped" /\ hist[3].op = "translate"
  /\ polys[3].shared # DefaultShared
  /\ tagLog # {}

\* C5: flipped() returns the receiver's vertices, each flipped, in exactly
\* reversed order, with the flipped plane; flipped() of that result has as
\* many vertices as the receiver, the receiver's positions in the receiver's
\* order and the receiver's plane normal and offset.
C5_FlippedInvolution ==
  \A q \in Derived :
    hist[q].op = "flipped" =>
      LET p == hist[q].parent
          n == Len(polys[p].vertices)
      IN  /\ Len(polys[q].vertices) = n
          /\ \A i \in 1..n : polys[q].vertices[i] = VertexFlipped(polys[p].vertices[n + 1 - i])
          /\ polys[q].plane = PlaneFlipped(polys[p].plane)
          /\ hist[p].op = "flipped" =>
               LET o == hist[p].parent
               IN  /\ Len(polys[q].vertices) = Len(polys[o].vertices)
                   /\ Positions(polys[q].vertices) = Positions(polys[o].vertices)
                   /\ polys[q].vertices = polys[o].vertices
                   /\ polys[q].plane.normal = polys[o].plane.normal
                   /\ polys[q].plane.w = polys[o].plane.w

\* a polygon with normals on its vertices, flipped, and flipped again
C5_Witness ==
  /\ Len(polys) = 3
  /\ hist[2].op = "flipped" /\ hist[2].parent = 1
  /\ hist[3].op = "flipped" /\ hist[3].parent = 2
  /\ polys[1].vertices[1].nrm = 1
  /\ polys[2].vertices # polys[1].vertices

\* C6: transform(M), and translate as transform by a translation, returns as
\* many vertices as the receiver has and the receiver's plane transformed by
\* M; result vertex i is M applied to receiver vertex i when M is not
\* mirroring and to receiver vertex n-1-i (from 0) when M is mirroring;
\* transform(identity) keeps positions, order and plane.
C6_TransformOrder ==
  \A q \in Derived :
    hist[q].op \in {"transform", "translate"} =>
      LET p == hist[q].parent
          M == Get(hist[q].arg)
          n == Len(polys[p].vertices)
      IN  /\ Len(polys[q].vertices) = n
          /\ polys[q].plane = PlaneTransform(polys[p].plane, M)
          /\ \A i \in 1..n :
               polys[q].vertices[i] =
                 VertexTransform(polys[p].vertices[IF isMirroring(M) THEN n + 1 - i ELSE i], M)
          /\ M = Identity =>
               /\ Positions(polys[q].vertices) = Positions(polys[p].vertices)
               /\ polys[q].plane = polys[p].plane

\* one polygon transformed by a mirroring matrix with an offset, and by the
\* identity
C6_Witness ==
  \E p, q, r \in Polys :
    /\ hist[q].op = "transform" /\ hist[q].parent = p /\ hist[q].arg = Some(MirrorShift)
    /\ hist[r].op = "transform" /\ hist[r].parent = p /\ hist[r].arg = Some(Identity)
    /\ Positions(polys[q].vertices) # Positions(polys[p].vertices)

-----------------------------------------------------------------------------
(* Claims on the tag registry (SpecTags) *)

Tagged == {s \in 1..Len(shareds) : shareds[s].tag # Undefined}

\* C4: the first getTag() on an instance takes the next value of the counter
\* and keeps it on the instance; every id a call returned for an instance is
\* the id kept on it, a further call returns it again and leaves the counter
\* alone; the counter has advanced once per instance that has an id; no two
\* instances hold the same id.
C4_TagOnceUnique ==
  /\ \A e \in tagLog : shareds[e[1]].tag = e[2]
  /\ \A s \in Tagged :
       /\ getTag(shareds, staticTag, s).ret = shareds[s].tag
       /\ getTag(shareds, staticTag, s).staticTag = staticTag
       /\ getTag(shareds, staticTag, s).shareds = shareds
       /\ shareds[s].tag < staticTag
  /\ \A s \in (1..Len(shareds)) \ Tagged :
       /\ getTag(shareds, staticTag, s).ret = staticTag
       /\ getTag(shareds, staticTag, s).staticTag > staticTag
  /\ \A s, t \in Tagged : s # t => shareds[s].tag # shareds[t].tag
  /\ staticTag = TagStart + Cardinality(Tagged)
  /\ Cardinality(tagLog) = Cardinality(Tagged)

\* three instances, two of which have an id, taken in the other order than
\* they were created in
C4_Witness ==
  /\ Len(shareds) = 3
  /\ Cardinality(Tagged) = 2
  /\ shareds[3].tag = 1
  /\ shareds[1].tag = 2

-----------------------------------------------------------------------------
(* Claims on the pure functions *)

Done(fn) == ~IsNone(call) /\ Get(call).fn = fn /\ Get(call).done

Out == Get(Get(call).out)

\* C7: fromColor with 3 components, as arguments or as one array, yields a
\* Shared of colour [r, g, b, 1]; with 4 components a Shared of those 4; with
\* any other number of components it fails and yields no Shared.  The hash of
\* fromColor(r, g, b) is the hash of fromColor([r, g, b, 1]), and the caller's
\* array is as it was.
C7_FromColorArity ==
  Done("fromColor") =>
    LET comps == Get(call).comps
    IN  /\ Len(comps) = 3 =>
             /\ IsNone(Out.err)
             /\ Get(Out.shared).color = Some(<<comps[1], comps[2], comps[3], 1>>)
             /\ getHash(Get(Out.shared))
                  = getHash(Get(fromColor("array", <<comps[1], comps[2], comps[3], 1>>).shared))
        /\ Len(comps) = 4 =>
             /\ IsNone(Out.err)
             /\ Get(Out.shared).color = Some(comps)
        /\ Len(comps) \notin {3, 4} =>
             /\ ~IsNone(Out.err)
             /\ IsNone(Out.shared)
        /\ Out.arg = comps

\* fromColor([1, 0, 0]) has returned a Shared whose hash is that of [1, 0, 0, 1]
C7_Witness ==
  /\ Done("fromColor")
  /\ Get(call).form = "array"
  /\ Get(call).comps = <<1, 0, 0>>
  /\ IsNone(Out.err)
  /\ getHash(Get(Out.shared)) = "1/0/0/1"

\* corner i of a loop taken cyclically: the predecessor of the first vertex
\* is the last, the successor of the last is the first
CornerConvex(vertices, normal, i) ==
  LET n == Len(vertices)
      prev == vertices[((i + n - 2) % n) + 1].pos
      cur == vertices[i].pos
      next == vertices[(i % n) + 1].pos
  IN  Dot(Cross(Minus(cur, prev), Minus(next, cur)), normal) >= 0

\* C8: verticesConvex(vertices, normal) is true exactly when every corner of
\* the loop, taken cyclically, has cross(v[i] - v[i-1], v[i+1] - v[i]) dot
\* normal >= 0; it is true for every loop of 0, 1 or 2 vertices.
C8_ConvexEveryCorner ==
  Done("verticesConvex") =>
    LET vertices == Get(call).vertices
        normal == Get(call).normal
    IN  /\ Out = (\A i \in 1..Len(vertices) : CornerConvex(vertices, normal, i))
        /\ Len(vertices) <= 2 => Out = TRUE

\* a loop whose only concave corner is its first vertex was found not convex
C8_Witness ==
  /\ Done("verticesConvex")
  /\ Positions(Get(call).vertices) = <<<<1, 1, 0>>, <<0, 2, 0>>, <<1, 0, 0>>, <<2, 2, 0>>>>
  /\ Get(call).normal = <<0, 0, 1>>
  /\ Out = FALSE

Recognized(features) == {i \in 1..Len(features) : features[i] \in {"volume", "area"}}

\* the place in features of the k-th recognized name
KthRecognized(features, k) ==
  CHOOSE i \in Recognized(features) :
    Cardinality({j \in Recognized(features) : j <= i}) = k

\* C10: getTetraFeatures returns one result per recognized name, in the order
\* of the names, repeated names included: the signed volume for 'volume', the
\* area for 'area'; other names add nothing and raise nothing.
C10_FeaturesInOrder ==
  Done("getTetraFeatures") =>
    LET poly == Get(call).poly
        features == Get(call).features
    IN  /\ Len(Out) = Cardinality(Recognized(features))
        /\ \A k \in 1..Len(Out) :
             Out[k] = IF features[KthRecognized(features, k)] = "volume"
                      THEN getSignedVolume(poly) ELSE getArea(poly)

\* area, an unknown name and volume were asked of the triangle: area 24 and
\* volume 16 came back, in that order
C10_Witness ==
  /\ Done("getTetraFeatures")
  /\ Get(call).features = <<"area", "bogus", "volume">>
  /\ Positions(Get(call).poly.vertices) = Triangle
  /\ Out = <<[num |-> 48, den |-> 2], [num |-> 96, den |-> 6]>>

====
